---------------------------- MODULE Spec2Model ----------------------------
(***************************************************************************)
(* A model of app.py, the Streamlit resume / job-description analyzer:     *)
(* the configuration files on disk, each browser session's session_state,  *)
(* one script run per user interaction (load / hot reload, term            *)
(* extraction, matching, scoring, "Save synonym"), and an out-of-band      *)
(* editor of the configuration files.                                      *)
(*                                                                         *)
(* Strings are TLA+ strings; Len, \o and SubSeq are used on them as on any *)
(* sequence of characters.                                                 *)
(***************************************************************************)
EXTENDS Integers, Sequences, FiniteSets, TLC

(***************************************************************************)
(* String helpers (Python str methods and the re patterns of app.py)       *)
(***************************************************************************)
UPPER == "ABCDEFGHIJKLMNOPQRSTUVWXYZ"
LOWER == "abcdefghijklmnopqrstuvwxyz"
DIGITS == "0123456789"

Ch(s, i) == SubSeq(s, i, i)

\* the characters of an alphabet, as a set
Chars(alphabet) == { Ch(alphabet, i) : i \in 1..Len(alphabet) }

UpperChars == Chars(UPPER)
AlnumChars == Chars(UPPER) \cup Chars(LOWER) \cup Chars(DIGITS)

\* each upper-case letter's lower-case letter
ToLower == [c \in UpperChars |-> Ch(LOWER, CHOOSE i \in 1..Len(UPPER) : Ch(UPPER, i) = c)]

LowerChar(c) == IF c \in UpperChars THEN ToLower[c] ELSE c

\* str.lower()
RECURSIVE Lower(_)
Lower(s) ==
    IF Len(s) = 0 THEN ""
    ELSE LowerChar(Ch(s, 1)) \o Lower(SubSeq(s, 2, Len(s)))

\* str.lstrip() / str.rstrip() / str.strip(): the whitespace of the model is " "
RECURSIVE LStrip(_)
LStrip(s) ==
    IF Len(s) > 0 /\ Ch(s, 1) = " " THEN LStrip(SubSeq(s, 2, Len(s))) ELSE s

RECURSIVE RStrip(_)
RStrip(s) ==
    IF Len(s) > 0 /\ Ch(s, Len(s)) = " " THEN RStrip(SubSeq(s, 1, Len(s) - 1)) ELSE s

Strip(s) == LStrip(RStrip(s))

\* str.rstrip("s"): every trailing "s" goes, not only one
RECURSIVE RStripS(_)
RStripS(s) ==
    IF Len(s) > 0 /\ Ch(s, Len(s)) = "s" THEN RStripS(SubSeq(s, 1, Len(s) - 1)) ELSE s

EndsWith(s, c) == Len(s) > 0 /\ Ch(s, Len(s)) = c

\* re.sub(r"\s{2,}", " ", s)
RECURSIVE CollapseSpaces(_)
CollapseSpaces(s) ==
    IF Len(s) < 2 THEN s
    ELSE IF Ch(s, 1) = " " /\ Ch(s, 2) = " "
         THEN CollapseSpaces(SubSeq(s, 2, Len(s)))
         ELSE Ch(s, 1) \o CollapseSpaces(SubSeq(s, 2, Len(s)))

\* Python's  sub in s
Contains(sub, s) ==
    \E i \in 1..(Len(s) - Len(sub) + 1) : SubSeq(s, i, i + Len(sub) - 1) = sub

Max(a, b) == IF a >= b THEN a ELSE b

RECURSIVE SetMax(_)
SetMax(S) ==
    IF S = {} THEN 0
    ELSE LET x == CHOOSE y \in S : TRUE IN Max(x, SetMax(S \ {x}))

\* F(v), with v evaluated once however often F reads it
Let(v, F(_)) == CHOOSE r \in { F(x) : x \in {v} } : TRUE

\* dict.get(k, default)
Get(m, k, default) == IF k \in DOMAIN m THEN m[k] ELSE default

\* a dict from its items
MapOf(items) ==
    [k \in {p[1] : p \in items} |-> (CHOOSE p \in items : p[1] = k)[2]]

\* {**a, **b}
Merge(a, b) ==
    [k \in (DOMAIN a) \cup (DOMAIN b) |-> IF k \in DOMAIN b THEN b[k] ELSE a[k]]

(***************************************************************************)
(* Built-in tables (app.py lines 69-108, 238-245, 329-356, 389)            *)
(***************************************************************************)
BUILTIN_SYNONYMS_ITEMS ==
    { <<"quality assurance", "qa">>, <<"qa testing", "qa">>,
      <<"manual software qa testing", "qa">>,
      <<"application programming interface", "api">>, <<"web service", "api">>,
      <<"soap api", "api">>, <<"rest apis", "rest api">>,
      <<"db", "database">>, <<"data store", "database">>, <<"sql database", "database">>,
      <<"postgres", "postgresql">>, <<"postgre sql", "postgresql">>,
      <<"js", "javascript">>,
      <<"customer support", "customer service">>,
      <<"customers support", "customer service">>,
      <<"end user", "customer">>, <<"client", "customer">>, <<"stakeholder", "customer">>,
      <<"docs", "documentation">>, <<"manual", "documentation">>,
      <<"guides", "documentation">>, <<"technical writing", "documentation">>,
      <<"connect", "integration">>, <<"api link", "integration">>,
      <<"system integration", "integration">>,
      <<"data transformation", "etl">>, <<"data pipeline", "etl">>,
      <<"radio frequency", "rf">>, <<"radio-frequency", "rf">>, <<"v-swr", "vswr">>,
      <<"microwave link", "microwave backhaul">> }

BUILTIN_SYNONYMS == MapOf(BUILTIN_SYNONYMS_ITEMS)

BUILTIN_STOP ==
    { "3 5 year", "3-5 years", "3 to 5 years", "bonus", "audience", "new", "lot",
      "high level", "fully computer literate", "driving license",
      "availability to travel", "security clearance", "standby rotation",
      "job description", "responsibilities include", "preferred qualifications",
      "nice to have", "about the company", "our mission", "perks and benefits",
      "how to apply", "contact us", "location", "requirements", "benefits" }

\* STOP_PHRASES = set(map(str.lower, st.session_state["stop_phrases"])); the
\* stop-phrase file is the one _ensure_files writes and is not edited here.
STOP_PHRASES == { Lower(p) : p \in BUILTIN_STOP }

\* stop_words = set(stopwords.words("english")): the members of the NLTK list
\* that the documents of this model use.
stop_words == { "i", "a", "an", "the", "and", "of", "with", "our", "for", "to", "in" }

ALLOWED_VERBS ==
    { "test", "testing", "troubleshoot", "troubleshooting", "debug", "debugging",
      "integrate", "integration", "document", "documentation", "support",
      "analyze", "analysis" }

CATEGORY_HINTS_ITEMS ==
    { <<"qa", "critical">>, <<"manual testing", "critical">>, <<"test case", "critical">>,
      <<"rest api", "critical">>, <<"api", "critical">>, <<"http status", "critical">>,
      <<"javascript", "critical">>, <<"integration", "critical">>,
      <<"data integration", "critical">>, <<"etl", "critical">>, <<"sql", "critical">>,
      <<"postgresql", "critical">>,
      <<"documentation", "important">>, <<"customer service", "important">>,
      <<"troubleshooting", "important">>, <<"debugging", "important">>,
      <<"salesforce", "important">>, <<"dhis2", "important">>, <<"commcare", "important">>,
      <<"kobo toolbox", "important">>, <<"openmrs", "important">>,
      <<"remote", "important">>, <<"remote-first", "important">> }

CATEGORY_HINTS == MapOf(CATEGORY_HINTS_ITEMS)

CRITICAL_KEYWORDS ==
    { "qa", "rest api", "api", "http status", "javascript", "etl", "integration",
      "sql", "postgresql", "test case" }

IMPORTANT_KEYWORDS ==
    { "troubleshoot", "debug", "documentation", "customer service", "salesforce",
      "dhis2", "commcare", "kobo toolbox", "openmrs", "remote" }

Tiers == { "critical", "important", "nice" }

\* TOKEN_RE = [A-Za-z0-9][A-Za-z0-9\-\/ ]{1,40}: the upper repetition bound
TOKEN_RE_MAX == 40

\* ACRONYM_PATTERN = \b[A-Z]{2,6}\b: the repetition bounds
ACRONYM_MIN == 2
ACRONYM_MAX == 6

(***************************************************************************)
(* Synonym normalizer (app.py lines 262-264, 358-369)                      *)
(***************************************************************************)
\* SYNONYMS_MAP is a global of the script run; here it is the argument m.
normalize_term(m, t) ==
    LET t1 == Strip(Lower(t)) IN Get(m, t1, t1)

expand_synonyms(m, term) ==
    LET base == normalize_term(m, term)
        reverse == { k \in DOMAIN m : m[k] = base }
        toggle == IF ~EndsWith(base, "s") THEN base \o "s" ELSE RStripS(base)
        variants == {base} \cup reverse \cup {toggle}
    IN  { normalize_term(m, v) : v \in variants }

(***************************************************************************)
(* rapidfuzz.fuzz.partial_ratio, as called at app.py lines 407-419: the    *)
(* best fuzz.ratio of the shorter string against a window of the longer    *)
(* one; fuzz.ratio is the normalized indel similarity 200*LCS/(len1+len2). *)
(* The model keeps the integer part of the score, which decides every      *)
(* comparison with the integer thresholds of get_scoring_config.           *)
(***************************************************************************)
\* One more row of the LCS table, left to right.  prev[j] is the LCS length
\* of the first i-1 characters of a with the first j of b, row[j] the same for
\* the first i characters, c the i-th character of a; column 0 (always 0) is
\* not stored.
RECURSIVE LcsRow(_, _, _, _)
LcsRow(prev, c, b, row) ==
    IF Len(row) = Len(b) THEN row
    ELSE LET j == Len(row) + 1
             diag == IF j = 1 THEN 0 ELSE prev[j - 1]
             left == IF j = 1 THEN 0 ELSE row[j - 1]
         IN  Let(Append(row, IF Ch(b, j) = c THEN diag + 1 ELSE Max(prev[j], left)),
                 LAMBDA longer : LcsRow(prev, c, b, longer))

RECURSIVE LcsRows(_, _, _, _)
LcsRows(a, b, i, prev) ==
    IF i > Len(a) THEN (IF Len(b) = 0 THEN 0 ELSE prev[Len(b)])
    ELSE Let(LcsRow(prev, Ch(a, i), b, <<>>), LAMBDA row : LcsRows(a, b, i + 1, row))

\* length of a longest common subsequence
LCS(a, b) == LcsRows(a, b, 1, [j \in 1..Len(b) |-> 0])

ratio(s1, s2) ==
    IF Len(s1) + Len(s2) = 0 THEN 100
    ELSE (200 * LCS(s1, s2)) \div (Len(s1) + Len(s2))

\* the windows of the longer string: its prefixes shorter than n, its
\* substrings of length n, its suffixes shorter than n
Windows(long, n) ==
    { SubSeq(long, 1, i) : i \in 1..(n - 1) }
      \cup { SubSeq(long, i, i + n - 1) : i \in 1..(Len(long) - n + 1) }
      \cup { SubSeq(long, i, Len(long)) : i \in (Len(long) - n + 2)..Len(long) }

partial_ratio_impl(short, long) ==
    SetMax({ ratio(short, w) : w \in Windows(long, Len(short)) })

partial_ratio(s1, s2) ==
    IF Len(s1) = 0 /\ Len(s2) = 0 THEN 100
    ELSE IF Len(s1) = 0 \/ Len(s2) = 0 THEN 0
    ELSE IF Len(s1) < Len(s2) THEN partial_ratio_impl(s1, s2)
    ELSE IF Len(s2) < Len(s1) THEN partial_ratio_impl(s2, s1)
    ELSE Max(partial_ratio_impl(s1, s2), partial_ratio_impl(s2, s1))

(***************************************************************************)
(* Matcher (app.py lines 388-422)                                          *)
(***************************************************************************)
IsAlnum(c) == c \in AlnumChars

IsTokenChar(c) == IsAlnum(c) \/ c = "-" \/ c = "/" \/ c = " "

\* how many characters of the class follow from position i, at most cap
RECURSIVE RunLen(_, _, _)
RunLen(s, i, cap) ==
    IF cap = 0 \/ i > Len(s) \/ ~IsTokenChar(Ch(s, i)) THEN 0
    ELSE 1 + RunLen(s, i + 1, cap - 1)

\* set(TOKEN_RE.findall(s)): leftmost, greedy, non-overlapping matches
RECURSIVE TokenScan(_, _)
TokenScan(s, i) ==
    IF i > Len(s) THEN {}
    ELSE LET n == RunLen(s, i + 1, TOKEN_RE_MAX)
         IN  IF IsAlnum(Ch(s, i)) /\ n >= 1
             THEN {SubSeq(s, i, i + n)} \cup TokenScan(s, i + n + 1)
             ELSE TokenScan(s, i + 1)

TOKEN_RE_findall(s) == TokenScan(s, 1)

\* the comparison of lines 407-419 turned round
FuzzyHitReversed(s, t, threshold) == partial_ratio(s, t) <= threshold

\* the comparison of lines 407, 410, 416 and 419
FuzzyHit(s, t, threshold) == partial_ratio(s, t) >= threshold

\* (matched, method)
MatchWith(base, syns, resume_terms, resume_text, threshold) ==
    IF base \in resume_terms THEN <<TRUE, "exact">>
    ELSE IF syns \cap resume_terms # {} THEN <<TRUE, "synonym">>
    ELSE IF \E rt \in resume_terms :
               \/ FuzzyHit(base, rt, threshold)
               \/ \E s \in syns : FuzzyHit(s, rt, threshold)
         THEN <<TRUE, "fuzzy-terms">>
    ELSE IF \E tok \in TOKEN_RE_findall(Lower(resume_text)) :
               \/ FuzzyHit(base, tok, threshold)
               \/ \E s \in syns : FuzzyHit(s, tok, threshold)
         THEN <<TRUE, "fuzzy-text">>
    ELSE <<FALSE, "no">>

\* a matcher whose exact test reads the term as given, not its canonical form
match_term_as_given(m, term, resume_terms, resume_text, threshold) ==
    Let(expand_synonyms(m, normalize_term(m, term)), LAMBDA syns :
        MatchWith(term, syns, resume_terms, resume_text, threshold))

any_exact_or_fuzzy_match(m, term, resume_terms, resume_text, threshold) ==
    Let(normalize_term(m, term), LAMBDA base :
        Let(expand_synonyms(m, base), LAMBDA syns :
            MatchWith(base, syns, resume_terms, resume_text, threshold)))

(***************************************************************************)
(* Categorizer (app.py lines 424-432)                                      *)
(***************************************************************************)
categorize_term(m, term) ==
    LET t == normalize_term(m, term)
    IN  IF t \in DOMAIN CATEGORY_HINTS THEN CATEGORY_HINTS[t]
        ELSE IF \E k \in CRITICAL_KEYWORDS : Contains(k, t) THEN "critical"
        ELSE IF \E k \in IMPORTANT_KEYWORDS : Contains(k, t) THEN "important"
        ELSE "nice"


(***************************************************************************)
(* Scoring configuration (app.py lines 69-72, 371-386)                     *)
(*                                                                         *)
(* A value read from weights.yaml is [kind, weights, thresholds]: kind is  *)
(* "map" for a mapping, "none" for a file that parses to nothing, "list"   *)
(* for any other non-mapping.  Its "weights" and "thresholds" are          *)
(* [kind, ent]: "absent" (no such key), "map" (ent maps tier names to      *)
(* scalars) or "list".  A scalar is [num, tenths]: a number, held in       *)
(* tenths (3.0 is 30), or, with num = FALSE, something float() and int()   *)
(* reject (null, "high").                                                  *)
(***************************************************************************)
NumV(tenths) == [num |-> TRUE, tenths |-> tenths]
NotANumber == [num |-> FALSE, tenths |-> 0]

AbsentSub == [kind |-> "absent", ent |-> <<>>]
ListSub == [kind |-> "list", ent |-> <<>>]
MapSub(ent) == [kind |-> "map", ent |-> ent]

MapCfg(w, t) == [kind |-> "map", weights |-> w, thresholds |-> t]
NoneCfg == [kind |-> "none", weights |-> AbsentSub, thresholds |-> AbsentSub]

\* BUILTIN_WEIGHTS (its guardrails and profiles are read by nothing)
BUILTIN_WEIGHTS ==
    MapCfg(MapSub([critical |-> NumV(30), important |-> NumV(20), nice |-> NumV(10)]),
           MapSub([critical |-> NumV(880), important |-> NumV(820), nice |-> NumV(750)]))

\* the defaults written in get_scoring_config itself, in tenths
DefaultWeight == [critical |-> 30, important |-> 20, nice |-> 10]
DefaultThreshold == [critical |-> 880, important |-> 820, nice |-> 750]

\* int(x): truncation toward zero, of a number held in tenths
IntOf(tenths) == IF tenths >= 0 THEN tenths \div 10 ELSE -((-tenths) \div 10)

\* d.get(key, default) on the "weights" / "thresholds" value
SubGet(sub, tier, default) ==
    IF sub.kind = "map" /\ tier \in DOMAIN sub.ent THEN sub.ent[tier] ELSE NumV(default)

\* whether get_scoring_config raises: .get on a non-mapping (AttributeError),
\* float() or int() of a non-number (TypeError, ValueError)
ConfigRaises(cfg) ==
    \/ cfg.kind # "map"
    \/ cfg.weights.kind = "list"
    \/ cfg.thresholds.kind = "list"
    \/ \E tier \in Tiers : ~SubGet(cfg.weights, tier, DefaultWeight[tier]).num
    \/ \E tier \in Tiers : ~SubGet(cfg.thresholds, tier, DefaultThreshold[tier]).num

\* weights in tenths (float keeps the value), thresholds as integers (int)
get_scoring_config(cfg) ==
    [ raised |-> ConfigRaises(cfg),
      weights |-> [tier \in Tiers |->
                     SubGet(cfg.weights, tier, DefaultWeight[tier]).tenths],
      thresholds |-> [tier \in Tiers |->
                     IntOf(SubGet(cfg.thresholds, tier, DefaultThreshold[tier]).tenths)] ]

(***************************************************************************)
(* Scorer (app.py lines 434-461, 490-496)                                  *)
(***************************************************************************)
\* the characters of the model in code-point order, for sorted()
ASCII_ORDER == " -/0123456789ABCDEFGHIJKLMNOPQRSTUVWXYZ_abcdefghijklmnopqrstuvwxyz"

OrdOf == [c \in Chars(ASCII_ORDER) |->
             CHOOSE i \in 1..Len(ASCII_ORDER) : Ch(ASCII_ORDER, i) = c]

Ord(c) == IF c \in DOMAIN OrdOf THEN OrdOf[c] ELSE 0

RECURSIVE StrLess(_, _)
StrLess(a, b) ==
    IF Len(b) = 0 THEN FALSE
    ELSE IF Len(a) = 0 THEN TRUE
    ELSE IF Ch(a, 1) # Ch(b, 1) THEN Ord(Ch(a, 1)) < Ord(Ch(b, 1))
    ELSE StrLess(SubSeq(a, 2, Len(a)), SubSeq(b, 2, Len(b)))

\* sorted(S) for a set of strings
RECURSIVE sorted(_)
sorted(S) ==
    IF S = {} THEN <<>>
    ELSE LET least == CHOOSE x \in S : \A y \in S \ {x} : StrLess(x, y)
         IN  <<least>> \o sorted(S \ {least})

\* round(num / den * 100, 2) in hundredths of a percent, for den > 0: round()
\* goes to the nearest hundredth, and to the even one on a tie
RoundPct(num, den) ==
    LET n == num * 10000
        fl == n \div den
        rem == n - fl * den
    IN  IF 2 * rem < den THEN fl
        ELSE IF 2 * rem > den THEN fl + 1
        ELSE IF fl % 2 = 0 THEN fl ELSE fl + 1

\* the dict appended to items at lines 451-458.  Matched is the tick or the
\* cross.  Line 455 compares the boolean `matched` with "no", which never
\* holds, so Method is `method` itself.  round(x, 2) keeps a number of tenths.
\* the record with the "-" that line 455 was written to give an unmatched term
ItemOfDash(cfg, m, term, resume_terms, resume_text) ==
    Let(categorize_term(m, term), LAMBDA category :
        Let(any_exact_or_fuzzy_match(m, term, resume_terms, resume_text,
                                     cfg.thresholds[category]),
            LAMBDA res :
                [ Term |-> term, Category |-> category,
                  Matched |-> res[1], Method |-> IF res[1] THEN res[2] ELSE "-",
                  Weight |-> cfg.weights[category],
                  Earned |-> IF res[1] THEN cfg.weights[category] ELSE 0 ]))

\* the record with the test of line 457 inverted: the weight is earned by the
\* terms that did not match
ItemOfUnmatchedEarns(cfg, m, term, resume_terms, resume_text) ==
    Let(categorize_term(m, term), LAMBDA category :
        Let(any_exact_or_fuzzy_match(m, term, resume_terms, resume_text,
                                     cfg.thresholds[category]),
            LAMBDA res :
                [ Term |-> term, Category |-> category,
                  Matched |-> res[1], Method |-> res[2],
                  Weight |-> cfg.weights[category],
                  Earned |-> IF res[1] THEN 0 ELSE cfg.weights[category] ]))

ItemOf(cfg, m, term, resume_terms, resume_text) ==
    Let(categorize_term(m, term), LAMBDA category :
        Let(any_exact_or_fuzzy_match(m, term, resume_terms, resume_text,
                                     cfg.thresholds[category]),
            LAMBDA res :
                [ Term |-> term, Category |-> category,
                  Matched |-> res[1], Method |-> res[2],
                  Weight |-> cfg.weights[category],
                  Earned |-> IF res[1] THEN cfg.weights[category] ELSE 0 ]))

\* the loop of lines 441-458 over sorted(jd_terms), from its i-th term on
RECURSIVE ItemsFrom(_, _, _, _, _, _)
ItemsFrom(cfg, m, order, i, resume_terms, resume_text) ==
    IF i > Len(order) THEN <<>>
    ELSE <<ItemOf(cfg, m, order[i], resume_terms, resume_text)>>
           \o ItemsFrom(cfg, m, order, i + 1, resume_terms, resume_text)

RECURSIVE SumField(_, _, _)
SumField(items, i, earned) ==
    IF i > Len(items) THEN 0
    ELSE (IF earned THEN items[i].Earned ELSE items[i].Weight)
           + SumField(items, i + 1, earned)

\* lines 460-461, from the items and the two totals
ScoreOf(items, total_possible, total_earned) ==
    [ raised |-> FALSE,
      score |-> IF total_possible > 0 THEN RoundPct(total_earned, total_possible) ELSE 0,
      items |-> items, total_possible |-> total_possible, total_earned |-> total_earned ]

\* score in hundredths of a percent, totals in tenths
score_weighted(wcfg, m, jd_terms, resume_terms, resume_text) ==
    IF ConfigRaises(wcfg)
    THEN [raised |-> TRUE, score |-> 0, items |-> <<>>,
          total_possible |-> 0, total_earned |-> 0]
    ELSE Let(get_scoring_config(wcfg), LAMBDA cfg :
         Let(sorted(jd_terms), LAMBDA order :
         Let(ItemsFrom(cfg, m, order, 1, resume_terms, resume_text), LAMBDA items :
             ScoreOf(items, SumField(items, 1, FALSE), SumField(items, 1, TRUE)))))

\* simple_score of line 493, in hundredths of a percent
simple_score_of(jd_terms, resume_terms) ==
    IF jd_terms # {}
    THEN RoundPct(Cardinality(jd_terms \cap resume_terms), Cardinality(jd_terms))
    ELSE 0


(***************************************************************************)
(* Term extractor (app.py lines 244-326)                                   *)
(*                                                                         *)
(* spaCy is outside the repository.  A document is what nlp() returns for  *)
(* it: tokens [text, lemma, pos, ent, is_stop, is_punct] (is_punct stands  *)
(* for is_space or is_punct) and noun chunks, each the sequence of the     *)
(* indices of its tokens.  `text` is the token as the author typed it; the *)
(* document's text is its tokens joined by single spaces.                  *)
(***************************************************************************)
RECURSIVE JoinFrom(_, _)
JoinFrom(words, i) ==
    IF i > Len(words) THEN ""
    ELSE IF i = Len(words) THEN words[i]
    ELSE words[i] \o " " \o JoinFrom(words, i + 1)

\* " ".join(words)
Join(words) == JoinFrom(words, 1)

RawText(doc) == Join([i \in 1..Len(doc.tokens) |-> doc.tokens[i].text])

\* ACRONYM_PATTERN.fullmatch(s)
IsAcronym(s) ==
    /\ Len(s) >= ACRONYM_MIN
    /\ Len(s) <= ACRONYM_MAX
    /\ \A i \in 1..Len(s) : Ch(s, i) \in UpperChars

IsSep(c) == c = "-" \/ c = "_" \/ c = "/"

\* CODEY_PATTERN.fullmatch(s): runs of letters and digits joined by single
\* separators, at least one separator
IsCodey(s) ==
    /\ Len(s) >= 3
    /\ \A i \in 1..Len(s) : IsAlnum(Ch(s, i)) \/ IsSep(Ch(s, i))
    /\ IsAlnum(Ch(s, 1)) /\ IsAlnum(Ch(s, Len(s)))
    /\ \A i \in 1..(Len(s) - 1) : ~(IsSep(Ch(s, i)) /\ IsSep(Ch(s, i + 1)))
    /\ \E i \in 1..Len(s) : IsSep(Ch(s, i))

EXCLUDED_ENTS == { "DATE", "TIME", "MONEY", "ORDINAL", "CARDINAL" }

\* nlp(low) with low = text.lower(): the annotator is handed the lower-cased
\* text, so every token's text is lower case when lines 275-302 read it.
\* (No document of the model holds a stop phrase, so lines 269-270 change
\* nothing.)
nlp_low(doc) ==
    [i \in 1..Len(doc.tokens) |-> [doc.tokens[i] EXCEPT !.text = Lower(@)]]

\* lines 276-302: the terms one token adds
TokenTerms(m, tok) ==
    LET lemma == Strip(Lower(tok.lemma))
    IN  IF tok.is_punct THEN {}
        ELSE IF tok.ent \in EXCLUDED_ENTS THEN {}
        ELSE IF IsAcronym(tok.text) THEN {Lower(tok.text)}
        ELSE IF IsCodey(tok.text) THEN {Lower(tok.text)}
        ELSE IF tok.pos \in {"NOUN", "PROPN"}
             THEN IF lemma # "" /\ lemma \notin stop_words /\ lemma \notin STOP_PHRASES
                  THEN {Get(m, lemma, lemma)} ELSE {}
        ELSE IF tok.pos = "VERB"
             THEN IF lemma \in ALLOWED_VERBS /\ lemma \notin STOP_PHRASES
                  THEN {lemma,
                        IF EndsWith(lemma, "e")
                        THEN SubSeq(lemma, 1, Len(lemma) - 1) \o "ing"
                        ELSE lemma \o "ing"}
                  ELSE {}
        ELSE {}

\* lines 247-260
RECURSIVE PhraseLemmas(_, _)
PhraseLemmas(words, i) ==
    IF i > Len(words) THEN <<>>
    ELSE LET lemma == Strip(Lower(words[i].lemma))
             keep == /\ ~words[i].is_punct
                     /\ lemma # "" /\ lemma \notin stop_words /\ lemma \notin STOP_PHRASES
         IN  (IF keep THEN <<lemma>> ELSE <<>>) \o PhraseLemmas(words, i + 1)

normalize_phrase(m, words) ==
    LET lemmas == PhraseLemmas(words, 1)
        phrase == Join(lemmas)
    IN  IF lemmas = <<>> THEN "" ELSE CollapseSpaces(Get(m, phrase, phrase))

\* lines 307-310: drop leading and trailing stop words
RECURSIVE TrimStops(_)
TrimStops(words) ==
    IF words # <<>> /\ (words[1].is_stop \/ words[1].is_punct)
    THEN TrimStops(SubSeq(words, 2, Len(words)))
    ELSE IF words # <<>> /\ (words[Len(words)].is_stop \/ words[Len(words)].is_punct)
    THEN TrimStops(SubSeq(words, 1, Len(words) - 1))
    ELSE words

RECURSIVE SelectWords(_, _, _)
SelectWords(toks, chunk, i) ==
    IF i > Len(chunk) THEN <<>>
    ELSE (IF toks[chunk[i]].is_punct THEN <<>> ELSE <<toks[chunk[i]]>>)
           \o SelectWords(toks, chunk, i + 1)

MAX_PHRASE_WORDS == 4

\* lines 305-316: the terms one noun chunk adds
ChunkTerms(m, toks, chunk) ==
    LET words == TrimStops(SelectWords(toks, chunk, 1))
        phrase == normalize_phrase(m, words)
    IN  IF words # <<>> /\ Len(words) <= MAX_PHRASE_WORDS /\ phrase # ""
        THEN {phrase} ELSE {}

\* lines 318-326: the folding pass over the collected terms
FoldTerms(m, terms) ==
    LET fold(t) == CollapseSpaces(Strip(Get(m, t, t)))
    IN  { fold(t) : t \in { u \in terms : fold(u) # "" /\ fold(u) \notin STOP_PHRASES } }

extract_terms(m, doc) ==
    LET toks == nlp_low(doc)
        single == UNION { TokenTerms(m, toks[i]) : i \in 1..Len(toks) }
        phrases == UNION { ChunkTerms(m, toks, doc.chunks[c]) : c \in 1..Len(doc.chunks) }
    IN  FoldTerms(m, single \cup phrases)


(***************************************************************************)
(* Inputs of the model: documents, the (JD, resume) pairs a user analyzes, *)
(* the pairs typed into "Save synonym", the contents an out-of-band editor *)
(* gives the configuration files.                                          *)
(***************************************************************************)
Tok(text, lemma, pos) ==
    [text |-> text, lemma |-> lemma, pos |-> pos, ent |-> "",
     is_stop |-> FALSE, is_punct |-> FALSE]

StopTok(text) ==
    [text |-> text, lemma |-> Lower(text), pos |-> "X", ent |-> "",
     is_stop |-> TRUE, is_punct |-> FALSE]

Doc ==
    [ qa      |-> [tokens |-> <<Tok("QA", "qa", "PROPN"), Tok("sql", "sql", "NOUN"),
                                Tok("toolbox", "toolbox", "NOUN")>>,
                   chunks |-> <<>>],
      db      |-> [tokens |-> <<Tok("toolbox", "toolbox", "NOUN"),
                                Tok("database", "database", "NOUN")>>,
                   chunks |-> <<>>],
      kobo    |-> [tokens |-> <<Tok("Kobo", "kobo", "PROPN"), Tok("Toolbox", "toolbox", "NOUN")>>,
                   chunks |-> << <<1, 2>> >>],
      comm    |-> [tokens |-> <<Tok("CommCare", "commcare", "PROPN")>>,
                   chunks |-> <<>>],
      api     |-> [tokens |-> <<Tok("api", "api", "NOUN"), Tok("sql", "sql", "NOUN"),
                                Tok("tester", "tester", "NOUN")>>,
                   chunks |-> <<>>],
      apis    |-> [tokens |-> <<Tok("APIs", "apis", "NOUN"), Tok("testing", "testing", "NOUN"),
                                Tok("MySQL", "mysql", "X")>>,
                   chunks |-> <<>>],
      dockr   |-> [tokens |-> <<Tok("dockr", "dockr", "NOUN")>>,
                   chunks |-> <<>>],
      docker  |-> [tokens |-> <<Tok("Docker", "docker", "PROPN")>>,
                   chunks |-> <<>>],
      support |-> [tokens |-> <<StopTok("I"), Tok("support", "support", "VERB")>>,
                   chunks |-> <<>>],
      it      |-> [tokens |-> <<StopTok("IT"), Tok("support", "support", "VERB")>>,
                   chunks |-> <<>>],
      customers |-> [tokens |-> <<StopTok("I"), Tok("support", "support", "VERB"),
                                  Tok("customers", "customer", "NOUN")>>,
                     chunks |-> <<>>],
      empty   |-> [tokens |-> <<StopTok("the"), StopTok("and")>>,
                   chunks |-> <<>>] ]

Case(jd, resume) == [jd |-> jd, resume |-> resume]

Cases ==
    { Case("qa", "db"), Case("kobo", "comm"), Case("api", "apis"),
      Case("dockr", "docker"), Case("support", "support"), Case("empty", "comm"),
      Case("customers", "it") }

\* the pair analyzed where two sessions run side by side
ConcCases == { Case("kobo", "comm") }

Pair(miss, present) == [miss |-> miss, present |-> present]

LearnPairs == { Pair("Kobo Toolbox", "CommCare"), Pair("support", "client") }

\* A JSON value read from a synonym file: a mapping, any other value
\* ("list"), or text json.load rejects ("invalid": truncated, empty, garbled).
EmptyMap == [k \in {} |-> ""]
MapJson(m) == [kind |-> "map", map |-> m]
ListJson == [kind |-> "list", map |-> EmptyMap]
InvalidJson == [kind |-> "invalid", map |-> EmptyMap]

NegCfg ==
    MapCfg(MapSub([critical |-> NumV(30), important |-> NumV(20), nice |-> NumV(-10)]),
           AbsentSub)
BadEntryCfg == MapCfg(MapSub([critical |-> NotANumber]), AbsentSub)

WeightsEdits == { NoneCfg, NegCfg, BadEntryCfg }
SynBaseEdits == { ListJson }
SynUserEdits == { MapJson(MapOf({<<"toolbox", "Tool Box">>})) }

\* how many times a behaviour of the model has the configuration files
\* written, by "Save synonym" or by an editor
MaxWrites == 2

(***************************************************************************)
(* State                                                                   *)
(***************************************************************************)
VARIABLES
    disk,           \* the files: weights.yaml, synonyms.json, synonyms.user.json
    session_state,  \* st.session_state of each session
    pc,             \* where each session's script run stands
    ld,             \* _load_configs: what was read, before the mtimes are read
    WEIGHTS_CFG,    \* the globals of the script run, lines 192-194
    SYNONYMS_MAP,
    jd_terms, resume_terms, resume_text,
    simple_score, weighted_score, items,
    user_syn, miss, present,   \* the locals of "Save synonym"
    learnt,         \* history: the synonyms each session saved
    failed,         \* whether the session's last script run raised
    writes          \* counter for MaxWrites

analysis == <<jd_terms, resume_terms, resume_text, simple_score, weighted_score, items>>
globals == <<WEIGHTS_CFG, SYNONYMS_MAP>>
locals == <<user_syn, miss, present>>
counters == <<writes>>
vars == <<disk, session_state, pc, ld, globals, analysis, locals, learnt, failed, counters>>

Sessions == DOMAIN pc

FileNames == { "weights", "syn_base", "syn_user" }

\* os.path.getmtime of the three files
Mtimes == [f \in FileNames |-> disk[f].mtime]

\* _safe_read_yaml(WEIGHTS_PATH, BUILTIN_WEIGHTS), lines 119-126
safe_read_yaml(file, default) ==
    IF file.content.kind = "invalid" THEN default ELSE file.content

\* _safe_read_json(path, default), lines 110-117
safe_read_json(file, default) ==
    IF file.content.kind = "invalid" THEN default ELSE file.content

\* len(json.dumps(m, indent=2))
RECURSIVE JsonEntriesLen(_, _)
JsonEntriesLen(m, keys) ==
    IF keys = {} THEN 0
    ELSE LET k == CHOOSE x \in keys : TRUE
         IN  Len(k) + Len(m[k]) + 8 + JsonEntriesLen(m, keys \ {k})

JsonLen(m) ==
    IF DOMAIN m = {} THEN 2
    ELSE 4 + JsonEntriesLen(m, DOMAIN m) + 2 * (Cardinality(DOMAIN m) - 1)

NoState ==
    [loaded |-> FALSE, weights_cfg |-> BUILTIN_WEIGHTS, synonyms |-> EmptyMap,
     cfg_mtimes |-> [f \in FileNames |-> 0]]

NoLoad == [weights |-> BUILTIN_WEIGHTS, synonyms |-> EmptyMap]

\* the files as _ensure_files writes them (lines 128-136), no session yet
InitWith(S) ==
    /\ disk = [ weights  |-> [content |-> BUILTIN_WEIGHTS, mtime |-> 1, size |-> 0],
                syn_base |-> [content |-> MapJson(BUILTIN_SYNONYMS), mtime |-> 1, size |-> 0],
                syn_user |-> [content |-> MapJson(EmptyMap), mtime |-> 1,
                              size |-> JsonLen(EmptyMap)] ]
    /\ session_state = [s \in S |-> NoState]
    /\ pc = [s \in S |-> "idle"]
    /\ ld = [s \in S |-> NoLoad]
    /\ WEIGHTS_CFG = [s \in S |-> BUILTIN_WEIGHTS]
    /\ SYNONYMS_MAP = [s \in S |-> EmptyMap]
    /\ jd_terms = [s \in S |-> {}]
    /\ resume_terms = [s \in S |-> {}]
    /\ resume_text = [s \in S |-> ""]
    /\ simple_score = [s \in S |-> 0]
    /\ weighted_score = [s \in S |-> 0]
    /\ items = [s \in S |-> <<>>]
    /\ user_syn = [s \in S |-> EmptyMap]
    /\ miss = [s \in S |-> ""]
    /\ present = [s \in S |-> ""]
    /\ learnt = [s \in S |-> EmptyMap]
    /\ failed = [s \in S |-> FALSE]
    /\ writes = 0

Init == InitWith({"s1"})


(***************************************************************************)
(* One script run (app.py top to bottom), as the steps at which another    *)
(* session or an editor of the files can come in between.                  *)
(***************************************************************************)
ClearAnalysis(s) ==
    /\ jd_terms' = [jd_terms EXCEPT ![s] = {}]
    /\ resume_terms' = [resume_terms EXCEPT ![s] = {}]
    /\ resume_text' = [resume_text EXCEPT ![s] = ""]
    /\ simple_score' = [simple_score EXCEPT ![s] = 0]
    /\ weighted_score' = [weighted_score EXCEPT ![s] = 0]
    /\ items' = [items EXCEPT ![s] = <<>>]

ClearGlobals(s) ==
    /\ WEIGHTS_CFG' = [WEIGHTS_CFG EXCEPT ![s] = BUILTIN_WEIGHTS]
    /\ SYNONYMS_MAP' = [SYNONYMS_MAP EXCEPT ![s] = EmptyMap]

ClearLocals(s) ==
    /\ user_syn' = [user_syn EXCEPT ![s] = EmptyMap]
    /\ miss' = [miss EXCEPT ![s] = ""]
    /\ present' = [present EXCEPT ![s] = ""]

\* lines 192-194: the globals of the run are bound to the session's values
Bind(s, state) ==
    /\ WEIGHTS_CFG' = [WEIGHTS_CFG EXCEPT ![s] = state.weights_cfg]
    /\ SYNONYMS_MAP' = [SYNONYMS_MAP EXCEPT ![s] = state.synonyms]

\* A user interaction starts the script: lines 172-173.  The files exist, so
\* _ensure_files writes nothing.
Rerun(s) ==
    /\ pc[s] = "idle"
    /\ pc' = [pc EXCEPT ![s] = IF session_state[s].loaded THEN "hot" ELSE "boot_read"]
    /\ failed' = [failed EXCEPT ![s] = FALSE]
    /\ UNCHANGED <<disk, session_state, ld, globals, analysis, locals, learnt, counters>>

\* _load_configs, lines 139-144: the files are read and merged
LoadPhase ==
    [boot_read |-> "boot_stat", hot_read |-> "hot_stat", btn_read |-> "btn_stat"]

\* {**syn_base, **syn_user} raises TypeError unless both are mappings
LoadRaises(syn_base, syn_user) == syn_base.kind # "map" \/ syn_user.kind # "map"

LoadRead(s) ==
    /\ pc[s] \in DOMAIN LoadPhase
    /\ LET weights == safe_read_yaml(disk.weights, BUILTIN_WEIGHTS)
           syn_base == safe_read_json(disk.syn_base, MapJson(BUILTIN_SYNONYMS))
           syn_user == safe_read_json(disk.syn_user, MapJson(EmptyMap))
       IN  IF LoadRaises(syn_base, syn_user)
           THEN /\ pc' = [pc EXCEPT ![s] = "idle"]
                /\ failed' = [failed EXCEPT ![s] = TRUE]
                /\ UNCHANGED ld
           ELSE /\ pc' = [pc EXCEPT ![s] = LoadPhase[pc[s]]]
                /\ ld' = [ld EXCEPT ![s] = [weights |-> weights,
                                            synonyms |-> Merge(syn_base.map, syn_user.map)]]
                /\ UNCHANGED failed
    /\ UNCHANGED <<disk, session_state, globals, analysis, locals, learnt, counters>>

\* _load_configs, lines 145-152, and the assignment to st.session_state
\* (lines 174-178, 164-168, 184-188): the mtimes are read after the contents
StatPhase == [boot_stat |-> "hot", hot_stat |-> "btn", btn_stat |-> "main"]

LoadStat(s) ==
    /\ pc[s] \in DOMAIN StatPhase
    /\ LET state == [loaded |-> TRUE, weights_cfg |-> ld[s].weights,
                     synonyms |-> ld[s].synonyms, cfg_mtimes |-> Mtimes]
       IN  /\ session_state' = [session_state EXCEPT ![s] = state]
           /\ IF pc[s] = "btn_stat" THEN Bind(s, state) ELSE UNCHANGED globals
    /\ pc' = [pc EXCEPT ![s] = StatPhase[pc[s]]]
    /\ ld' = [ld EXCEPT ![s] = NoLoad]
    /\ UNCHANGED <<disk, analysis, locals, learnt, failed, counters>>

\* _hot_reload_if_changed, lines 154-163
HotReloadNeeded(old, mtimes_now) == \E k \in FileNames : mtimes_now[k] # old[k]

HotReloadCheck(s) ==
    /\ pc[s] = "hot"
    /\ pc' = [pc EXCEPT ![s] =
                IF HotReloadNeeded(session_state[s].cfg_mtimes, Mtimes)
                THEN "hot_read" ELSE "btn"]
    /\ UNCHANGED <<disk, session_state, ld, globals, analysis, locals, learnt, failed, counters>>

\* lines 183-194: "Reload configs" pressed in this run, or not
SidebarReload(s) ==
    /\ pc[s] = "btn"
    /\ pc' = [pc EXCEPT ![s] = "btn_read"]
    /\ UNCHANGED <<disk, session_state, ld, globals, analysis, locals, learnt, failed, counters>>

NoSidebarReload(s) ==
    /\ pc[s] = "btn"
    /\ pc' = [pc EXCEPT ![s] = "main"]
    /\ Bind(s, session_state[s])
    /\ UNCHANGED <<disk, session_state, ld, analysis, locals, learnt, failed, counters>>

\* lines 476-496: both inputs are there; terms, simple score, weighted score.
\* When score_weighted raises (line 495) the run ends there, its locals gone.
Analyze(s, case) ==
    /\ pc[s] = "main"
    /\ \E jd \in {extract_terms(SYNONYMS_MAP[s], Doc[case.jd])},
          res \in {extract_terms(SYNONYMS_MAP[s], Doc[case.resume])},
          text \in {RawText(Doc[case.resume])} :
         \E scored \in {score_weighted(WEIGHTS_CFG[s], SYNONYMS_MAP[s], jd, res, text)} :
           IF scored.raised
           THEN /\ pc' = [pc EXCEPT ![s] = "idle"]
                /\ failed' = [failed EXCEPT ![s] = TRUE]
                /\ ClearGlobals(s)
                /\ UNCHANGED analysis
           ELSE /\ pc' = [pc EXCEPT ![s] = "analyzed"]
                /\ jd_terms' = [jd_terms EXCEPT ![s] = jd]
                /\ resume_terms' = [resume_terms EXCEPT ![s] = res]
                /\ resume_text' = [resume_text EXCEPT ![s] = text]
                /\ simple_score' = [simple_score EXCEPT ![s] = simple_score_of(jd, res)]
                /\ weighted_score' = [weighted_score EXCEPT ![s] = scored.score]
                /\ items' = [items EXCEPT ![s] = scored.items]
                /\ UNCHANGED <<globals, failed>>
    /\ UNCHANGED <<disk, session_state, ld, locals, learnt, counters>>

\* lines 620-621: no resume or no job description, nothing is analyzed
NoInputs(s) ==
    /\ pc[s] = "main"
    /\ pc' = [pc EXCEPT ![s] = "idle"]
    /\ ClearGlobals(s)
    /\ UNCHANGED <<disk, session_state, ld, analysis, locals, learnt, failed, counters>>

\* the run ends with "Save synonym" not pressed
EndRun(s) ==
    /\ pc[s] = "analyzed"
    /\ pc' = [pc EXCEPT ![s] = "idle"]
    /\ ClearGlobals(s)
    /\ ClearAnalysis(s)
    /\ UNCHANGED <<disk, session_state, ld, locals, learnt, failed, counters>>


(***************************************************************************)
(* "Save synonym" (app.py lines 598-615), pressed in a run that analyzed   *)
(***************************************************************************)
\* lines 603-606: the user table is read and the entry is set in the copy.
\* A table that is no mapping makes line 606 raise; line 614 catches it.
LearnRead(s, pair) ==
    /\ pc[s] = "analyzed"
    /\ writes < MaxWrites
    /\ pair.miss # "" /\ pair.present # ""
    /\ LET read == safe_read_json(disk.syn_user, MapJson(EmptyMap))
           key == Lower(pair.miss)
           entry == [k \in {key} |-> Lower(pair.present)]
       IN  IF read.kind # "map"
           THEN /\ pc' = [pc EXCEPT ![s] = "idle"]
                /\ ClearGlobals(s)
                /\ UNCHANGED <<locals, writes>>
           ELSE /\ pc' = [pc EXCEPT ![s] = "learn_open"]
                /\ user_syn' = [user_syn EXCEPT ![s] = Merge(read.map, entry)]
                /\ miss' = [miss EXCEPT ![s] = pair.miss]
                /\ present' = [present EXCEPT ![s] = pair.present]
                /\ writes' = writes + 1
                /\ UNCHANGED globals
    /\ ClearAnalysis(s)
    /\ UNCHANGED <<disk, session_state, ld, learnt, failed>>

\* line 607: open(SYN_USER_PATH, "w") empties the file
LearnOpen(s) ==
    /\ pc[s] = "learn_open"
    /\ disk' = [disk EXCEPT !.syn_user =
                  [content |-> InvalidJson, mtime |-> @.mtime + 1, size |-> 0]]
    /\ pc' = [pc EXCEPT ![s] = "learn_dump"]
    /\ UNCHANGED <<session_state, ld, globals, analysis, locals, learnt, failed, counters>>

\* What the file holds after this writer's bytes went in at offset 0: its
\* own text, unless another writer's longer text is there, whose tail stays
\* behind this one's closing brace.
DumpOver(file, m) ==
    IF file.size > JsonLen(m)
    THEN [content |-> InvalidJson, mtime |-> file.mtime + 1, size |-> file.size]
    ELSE [content |-> MapJson(m), mtime |-> file.mtime + 1, size |-> JsonLen(m)]

\* line 608 and the end of the with block: the text is written
LearnDump(s) ==
    /\ pc[s] = "learn_dump"
    /\ disk' = [disk EXCEPT !.syn_user = DumpOver(@, user_syn[s])]
    /\ pc' = [pc EXCEPT ![s] = "learn_refresh"]
    /\ UNCHANGED <<session_state, ld, globals, analysis, locals, learnt, failed, counters>>

\* what lines 611-613 leave in st.session_state
Refreshed(state, base_syn, user, mtime) ==
    [state EXCEPT !.synonyms = Merge(base_syn, user), !.cfg_mtimes.syn_user = mtime]

\* lines 609-613: the session's merged table and the recorded mtime are
\* refreshed.  A base table that is no mapping makes line 612 raise; line 614
\* catches it.
LearnRefresh(s) ==
    /\ pc[s] = "learn_refresh"
    /\ LET base_syn == safe_read_json(disk.syn_base, MapJson(BUILTIN_SYNONYMS))
       IN  IF base_syn.kind # "map"
           THEN UNCHANGED <<session_state, learnt>>
           ELSE /\ session_state' = [session_state EXCEPT ![s] =
                      Refreshed(@, base_syn.map, user_syn[s], disk.syn_user.mtime)]
                /\ learnt' = [learnt EXCEPT ![s] =
                      Merge(@, [k \in {Lower(miss[s])} |-> Lower(present[s])])]
    /\ pc' = [pc EXCEPT ![s] = "idle"]
    /\ ClearGlobals(s)
    /\ ClearLocals(s)
    /\ UNCHANGED <<disk, ld, analysis, failed, counters>>

(***************************************************************************)
(* Someone else changes a configuration file                               *)
(***************************************************************************)
\* the file after an editor saved it with this content
Saved(file, content, size) ==
    [content |-> content, mtime |-> file.mtime + 1, size |-> size]

EditWeights ==
    \E c \in WeightsEdits :
        /\ writes < MaxWrites
        /\ disk.weights.content # c
        /\ disk' = [disk EXCEPT !.weights = Saved(@, c, 0)]
        /\ writes' = writes + 1
        /\ UNCHANGED <<session_state, pc, ld, globals, analysis, locals, learnt, failed>>

EditSynBase ==
    \E c \in SynBaseEdits :
        /\ writes < MaxWrites
        /\ disk.syn_base.content # c
        /\ disk' = [disk EXCEPT !.syn_base = Saved(@, c, 0)]
        /\ writes' = writes + 1
        /\ UNCHANGED <<session_state, pc, ld, globals, analysis, locals, learnt, failed>>

EditSynUser ==
    \E c \in SynUserEdits :
        /\ writes < MaxWrites
        /\ disk.syn_user.content # c
        /\ disk' = [disk EXCEPT !.syn_user = Saved(@, c, JsonLen(c.map))]
        /\ writes' = writes + 1
        /\ UNCHANGED <<session_state, pc, ld, globals, analysis, locals, learnt, failed>>

(***************************************************************************)
(* Specifications                                                          *)
(***************************************************************************)
Next ==
    \/ \E s \in Sessions : Rerun(s)
    \/ \E s \in Sessions : LoadRead(s)
    \/ \E s \in Sessions : LoadStat(s)
    \/ \E s \in Sessions : HotReloadCheck(s)
    \/ \E s \in Sessions : SidebarReload(s)
    \/ \E s \in Sessions : NoSidebarReload(s)
    \/ \E s \in Sessions, case \in Cases : Analyze(s, case)
    \/ \E s \in Sessions : NoInputs(s)
    \/ \E s \in Sessions : EndRun(s)
    \/ \E s \in Sessions, pair \in LearnPairs : LearnRead(s, pair)
    \/ \E s \in Sessions : LearnOpen(s)
    \/ \E s \in Sessions : LearnDump(s)
    \/ \E s \in Sessions : LearnRefresh(s)
    \/ EditWeights
    \/ EditSynBase
    \/ EditSynUser

\* one session, and an editor of the files
Spec == Init /\ [][Next]_vars

\* Two sessions of the one server process, their script runs interleaved at
\* the file operations; nobody edits the files by hand.
InitConc == InitWith({"s1", "s2"})

NextConc ==
    \/ \E s \in Sessions : Rerun(s)
    \/ \E s \in Sessions : LoadRead(s)
    \/ \E s \in Sessions : LoadStat(s)
    \/ \E s \in Sessions : HotReloadCheck(s)
    \/ \E s \in Sessions : NoSidebarReload(s)
    \/ \E s \in Sessions, case \in ConcCases : Analyze(s, case)
    \/ \E s \in Sessions : EndRun(s)
    \/ \E s \in Sessions, pair \in LearnPairs : LearnRead(s, pair)
    \/ \E s \in Sessions : LearnOpen(s)
    \/ \E s \in Sessions : LearnDump(s)
    \/ \E s \in Sessions : LearnRefresh(s)

SpecConc == InitConc /\ [][NextConc]_vars

(***************************************************************************)
(* Properties                                                              *)
(***************************************************************************)
\* the session's script run stands after line 496, the analysis done
Analyzed(s) == pc[s] = "analyzed"

\* the matcher on term t with the inputs and the tables of the session's run,
\* at the threshold of t's tier
MatchOf(s, t) ==
    any_exact_or_fuzzy_match(
        SYNONYMS_MAP[s], t, resume_terms[s], resume_text[s],
        get_scoring_config(WEIGHTS_CFG[s]).thresholds[categorize_term(SYNONYMS_MAP[s], t)])

ProbeThresholds == {75, 90}

\* the thresholds at which a fuzzy strategy matches term t, with the inputs
\* and the SynonymMap of the session's run
FuzzyAt(s, t) ==
    { th \in ProbeThresholds :
        any_exact_or_fuzzy_match(SYNONYMS_MAP[s], t, resume_terms[s], resume_text[s], th)[2]
            \in {"fuzzy-terms", "fuzzy-text"} }

\* C1: a JD term that is an element of the resume TermSet is matched with
\* method "exact" and its record earns the full weight of its tier, under
\* every SynonymMap reachable by loading and learning.
C1_ExactWhenPresent ==
    \A s \in Sessions :
        Analyzed(s) =>
            \A i \in 1..Len(items[s]) :
                items[s][i].Term \in resume_terms[s] =>
                    /\ items[s][i].Matched
                    /\ items[s][i].Method = "exact"
                    /\ items[s][i].Earned = items[s][i].Weight

\* C2 (as stated): a term that is not in the resume TermSet and overlaps with
\* it only through a SynonymMap entry (the term is a key whose value is in the
\* resume TermSet) is reported with method "synonym", not "exact".
C2_SynonymForMappedTerm ==
    \A s \in Sessions :
        Analyzed(s) =>
            \A k \in DOMAIN SYNONYMS_MAP[s] :
                (k \notin resume_terms[s] /\ SYNONYMS_MAP[s][k] \in resume_terms[s])
                    => MatchOf(s, k) = <<TRUE, "synonym">>

\* C2 (amended): the matcher canonicalizes the term first, so a term that is
\* not in the resume TermSet but whose canonical form is, is reported "exact";
\* "synonym" is reported exactly for the terms whose canonical form is not in
\* the resume TermSet while one of its expansions is.
C2_ExactOnCanonicalTerm ==
    \A s \in Sessions :
        Analyzed(s) =>
            /\ \A k \in DOMAIN SYNONYMS_MAP[s] :
                   (k \notin resume_terms[s]
                      /\ SYNONYMS_MAP[s][k] \in resume_terms[s]
                      /\ normalize_term(SYNONYMS_MAP[s], k) \in resume_terms[s])
                       => MatchOf(s, k) = <<TRUE, "exact">>
            /\ \A i \in 1..Len(items[s]) :
                   LET base == normalize_term(SYNONYMS_MAP[s], items[s][i].Term)
                   IN  items[s][i].Method = "synonym"
                         <=> /\ base \notin resume_terms[s]
                             /\ expand_synonyms(SYNONYMS_MAP[s], base) \cap resume_terms[s] # {}

\* the scenario of C2: "kobo toolbox" -> "commcare" was learnt in the session,
\* the resume TermSet holds "commcare" and not "kobo toolbox", and the matcher
\* has answered for "kobo toolbox"
C2_Witness ==
    \E s \in Sessions :
        /\ Analyzed(s)
        /\ "kobo toolbox" \in DOMAIN learnt[s]
        /\ "kobo toolbox" \in DOMAIN SYNONYMS_MAP[s]
        /\ SYNONYMS_MAP[s]["kobo toolbox"] = "commcare"
        /\ "commcare" \in resume_terms[s]
        /\ "kobo toolbox" \notin resume_terms[s]
        /\ MatchOf(s, "kobo toolbox") = <<TRUE, "exact">>

\* C3: normalize_term is idempotent under every SynonymMap a session holds
\* (built-in, loaded from disk, produced by learn), on the keys and the values
\* of the table.
C3_NormalizeIdempotent ==
    \A s \in Sessions :
        LET m == session_state[s].synonyms
        IN  \A x \in (DOMAIN m) \cup { m[k] : k \in DOMAIN m } :
                normalize_term(m, normalize_term(m, x)) = normalize_term(m, x)

\* C4: for a non-empty JD TermSet and a configuration get_scoring_config
\* accepts, simple_score and the weighted score are in [0, 100] (here in
\* hundredths of a percent).
C4_ScoresInRange ==
    \A s \in Sessions :
        (Analyzed(s) /\ jd_terms[s] # {}) =>
            /\ 0 <= simple_score[s] /\ simple_score[s] <= 10000
            /\ 0 <= weighted_score[s] /\ weighted_score[s] <= 10000

\* C5: a malformed configuration never makes the analysis fail: no script
\* run of a session ends in an exception.
C5_ConfigNeverFails == \A s \in Sessions : ~failed[s]

\* C6 (as stated): a term no strategy matched has matched = false and
\* method = "none"; every record's method is one of exact, synonym,
\* fuzzy-terms, fuzzy-text, none.
C6_MethodNone ==
    \A s \in Sessions :
        Analyzed(s) =>
            \A i \in 1..Len(items[s]) :
                /\ items[s][i].Method
                     \in {"exact", "synonym", "fuzzy-terms", "fuzzy-text", "none"}
                /\ ~items[s][i].Matched => items[s][i].Method = "none"

\* C6 (amended): a term no strategy matched has matched = false, method "no"
\* and earns 0; every record's method is one of exact, synonym, fuzzy-terms,
\* fuzzy-text, no; a matched term's method is one of the four strategies.
C6_MethodNo ==
    \A s \in Sessions :
        Analyzed(s) =>
            \A i \in 1..Len(items[s]) :
                /\ items[s][i].Method
                     \in {"exact", "synonym", "fuzzy-terms", "fuzzy-text", "no"}
                /\ ~items[s][i].Matched <=> items[s][i].Method = "no"
                /\ ~items[s][i].Matched => items[s][i].Earned = 0

\* an analysis with a term that no strategy matched
C6_Witness ==
    \E s \in Sessions :
        /\ Analyzed(s)
        /\ \E i \in 1..Len(items[s]) :
               ~items[s][i].Matched /\ items[s][i].Method = "no"

\* C7: with the JD terms, the resume TermSet, the raw text and the SynonymMap
\* fixed, a JD term a fuzzy strategy matches at threshold t2 is matched by a
\* fuzzy strategy at every threshold t1 <= t2, so raising the threshold never
\* adds a fuzzy match.
C7_ThresholdMonotone ==
    \A s \in Sessions :
        Analyzed(s) =>
            \A t \in jd_terms[s] :
                \A hits \in {FuzzyAt(s, t)} :
                    \A t2 \in hits :
                        \A t1 \in ProbeThresholds : t1 <= t2 => t1 \in hits

\* an analysis with a term fuzzy-matched at one threshold and not at a higher
C7_Witness ==
    \E s \in Sessions :
        /\ Analyzed(s)
        /\ \E t \in jd_terms[s] :
               \E hits \in {FuzzyAt(s, t)} :
                   \E t1 \in hits :
                       \E t2 \in ProbeThresholds : t1 < t2 /\ t2 \notin hits

\* C8: when the JD TermSet is empty no error is raised, simple_score and the
\* weighted score are 0 and the list of records is empty.
C8_EmptyJD ==
    \A s \in Sessions :
        pc[s] = "main" =>
            \A case \in Cases :
                \A res \in {extract_terms(SYNONYMS_MAP[s], Doc[case.resume])} :
                    \A scored \in {score_weighted(WEIGHTS_CFG[s], SYNONYMS_MAP[s], {}, res,
                                                  RawText(Doc[case.resume]))} :
                        /\ ~scored.raised
                        /\ simple_score_of({}, res) = 0
                        /\ scored.score = 0
                        /\ scored.items = <<>>

\* C9: once a session's learn has completed, the SynonymMap of every later
\* script run of that session holds the learnt entry.
C9_LearntVisible ==
    \A s \in Sessions :
        pc[s] \in {"main", "analyzed"} =>
            \A k \in DOMAIN learnt[s] :
                k \in DOMAIN SYNONYMS_MAP[s] /\ SYNONYMS_MAP[s][k] = learnt[s][k]

\* C10: whenever no learn is between its file operations, the user synonym
\* file is a well-formed mapping that holds the entry of every learn call
\* that has completed.
C10_LearntKept ==
    (\A s \in Sessions : pc[s] \notin {"learn_open", "learn_dump"}) =>
        /\ disk.syn_user.content.kind = "map"
        /\ \A s \in Sessions :
               \A k \in DOMAIN learnt[s] :
                   /\ k \in DOMAIN disk.syn_user.content.map
                   /\ disk.syn_user.content.map[k] = learnt[s][k]


\* every record of the session's analysis carries the same positive weight
EqualWeights(s) ==
    \A i \in 1..Len(items[s]) :
        /\ items[s][i].Weight > 0
        /\ \A j \in 1..Len(items[s]) : items[s][j].Weight = items[s][i].Weight

\* every JD term found in the resume TermSet has its canonical form there too
CanonicalInResume(s) ==
    \A t \in jd_terms[s] \cap resume_terms[s] :
        normalize_term(SYNONYMS_MAP[s], t) \in resume_terms[s]

C12_NoEquivalentTerms ==
    \A s \in Sessions :
        Analyzed(s) =>
            \A ts \in {jd_terms[s], resume_terms[s]} :
                \A t1, t2 \in ts :
                    normalize_term(SYNONYMS_MAP[s], t1) = normalize_term(SYNONYMS_MAP[s], t2)
                        => t1 = t2

\* the base table merged with the user table as the files hold them now, user
\* entries overriding base entries
MergedOnDisk == Merge(disk.syn_base.content.map, disk.syn_user.content.map)

\* C13: after an out-of-band change of a synonym file, made at any moment (the
\* moment between _load_configs reading the files and recording their
\* modification times included), _hot_reload_if_changed leaves the session
\* with the base table merged with the user table as stored on disk.  As a
\* state property: when _hot_reload_if_changed has returned and the files are
\* as the session recorded them (so that, the files changing no more, no
\* later run reloads), the session's SynonymMap is that merge.
C13_ReloadMatchesDisk ==
    \A s \in Sessions :
        ( /\ pc[s] = "btn"
          /\ session_state[s].cfg_mtimes = Mtimes
          /\ disk.syn_base.content.kind = "map"
          /\ disk.syn_user.content.kind = "map" )
            => session_state[s].synonyms = MergedOnDisk

\* the words of a text, its tokens as the author typed them
RECURSIVE WordsFrom(_, _, _)
WordsFrom(text, i, word) ==
    IF i > Len(text) THEN (IF word = "" THEN {} ELSE {word})
    ELSE IF Ch(text, i) = " "
         THEN (IF word = "" THEN {} ELSE {word}) \cup WordsFrom(text, i + 1, "")
         ELSE WordsFrom(text, i + 1, word \o Ch(text, i))

Words(text) == WordsFrom(text, 1, "")

\* C14: every token of the input text whose surface form is 2 to 6 uppercase
\* letters yields its lower-cased form as a term of extract_terms' result,
\* whatever its part of speech or stop-word status (here on the resume, whose
\* raw text the analysis keeps).
C14_AcronymsKept ==
    \A s \in Sessions :
        Analyzed(s) =>
            \A w \in Words(resume_text[s]) :
                IsAcronym(w) => Lower(w) \in resume_terms[s]

=============================================================================
